---- MODULE Spec2Model ----
(***************************************************************************)
(* The /stream endpoint of the multi-provider chat gateway, as a state     *)
(* machine.  The repository holds three divergent copies of the handler:  *)
(*   "ai"    src/server/routes/ai.js   (the router index.js mounts)       *)
(*   "index" src/server/index.js       (second half of the file)          *)
(*   "part2" src/unnamed/part_002      (second router of the file)        *)
(* One client connection is modelled; the upstream provider is the        *)
(* environment: its fetch resolves or rejects, its body delivers chunks,  *)
(* closes, or fails.                                                      *)
(*                                                                         *)
(* Text is modelled as a sequence of tokens.  An upstream byte stream is  *)
(* a sequence of the tokens below; a network chunk is any non-empty run   *)
(* of consecutive tokens, so a chunk boundary can fall inside a line and  *)
(* inside a JSON payload.                                                  *)
(*   "data: "  the six-character SSE payload prefix                        *)
(*   "{"       the opening of the provider family's delta JSON, up to the  *)
(*             opening quote of its text value                             *)
(*   "}"       the closing quote and braces of that JSON                   *)
(*   "{}"      a complete JSON value that carries no text delta            *)
(*   "x"       bytes that are not JSON                                     *)
(*   "[DONE]"  the termination sentinel                                    *)
(*   "event"   a line that is not a payload line (event: ..., : comment)   *)
(*   "o", "c"  the JSON around a Gemini part object ({"candidates":[...)   *)
(*   NL        the newline character                                       *)
(*   "e1","e2" the two bytes of one UTF-8 character of a text value        *)
(*   a word:   the bytes of one ASCII piece of a text value                *)
(* The handlers decode each chunk with chunk.toString(): the decoded text  *)
(* is a sequence of the same tokens, with "E" for the character of the     *)
(* bytes "e1","e2" and "?" for U+FFFD, which a byte of it decodes to when  *)
(* the chunk holds it alone.                                                *)
(*                                                                         *)
(* Further specifications over the same variables, each leaving the        *)
(* variables of the others at rest:                                         *)
(*   SpecApi     /models, /chat and the request /stream hands to fetch     *)
(*   SpecConc    two concurrent /stream connections                        *)
(*   SpecSilent  /stream against a provider that may stay silent           *)
(*   SpecDb      the calls of src/database/index.js on projects and files  *)
(*   SpecFiles   the routes of src/server/routes/files.js                  *)
(*   SpecDeploy  POST /deploy/:projectId of src/server/routes/deploy.js    *)
(*   SpecWs      the WebSocket client registry of src/server/index.js      *)
(***************************************************************************)
EXTENDS Integers, Sequences, FiniteSets, TLC

VARIABLES impl, pc, provider, headersSent, httpStatus, upstreamStatus,
          sent, buffer, frames, ended, fetches,
          env, req, context, outbound, reply,
          conns, buffers,
          projects, project_files, deployments, uuids, called, deploying,
          clients, sockets, received, now

(* One /stream connection and its upstream *)
streamVars == <<impl, pc, provider, headersSent, httpStatus, upstreamStatus,
                sent, buffer, frames, ended, fetches>>
(* The process environment, one request with its context array, the          *)
(* provider request the handler issued and the response it gave              *)
apiVars == <<env, req, context, outbound, reply>>
(* Concurrent /stream connections and the line buffers they use *)
concVars == <<conns, buffers>>
(* The database tables, the ids uuid() has handed out, the last database   *)
(* call or route request with its result, and the deploy handlers waiting  *)
(* for their platform                                                        *)
dbVars == <<projects, project_files, deployments, uuids, called, deploying>>
(* The WebSocket client registry, the sockets the server accepted, the     *)
(* sockets the last broadcast was sent to, and the clock                    *)
wsVars == <<clients, sockets, received, now>>

vars == <<streamVars, apiVars, concVars, dbVars, wsVars>>

MaxBytes == 14
MaxUnits == 3

Impls == {"ai", "index", "part2"}
NL == "\n"
TextTok == {"Hello", "world", "foo", " ", "E", "?", "No response"}

Last(s) == s[Len(s)]
Front(s) == SubSeq(s, 1, Len(s) - 1)

----------------------------------------------------------------------------
(* Frames written to the client with res.write.  json is FALSE for the    *)
(* bare sentinel frame `data: [DONE]` of part_002.                         *)
TextFrame(t) == [kind |-> "text", text |-> t, json |-> TRUE]
DoneFrame == [kind |-> "done", text |-> <<>>, json |-> TRUE]
DoneSentinelFrame == [kind |-> "done", text |-> <<"[DONE]">>, json |-> FALSE]
ErrorFrame(msg) == [kind |-> "error", text |-> <<msg>>, json |-> TRUE]

----------------------------------------------------------------------------
(* Provider registry and model selection.                                  *)

Providers == {"anthropic", "openai", "groq", "gemini"}

(* PROVIDERS[p].models *)
PROVIDERS_models(i) ==
  [anthropic |-> <<"claude-sonnet-4-20250514",
                   IF i = "ai" THEN "claude-3-5-haiku-20241022"
                               ELSE "claude-3-haiku-20240307">>,
   openai    |-> <<"gpt-4o", "gpt-4o-mini">>,
   groq      |-> <<"llama-3.3-70b-versatile", "llama-3.1-8b-instant">>,
   gemini    |-> <<"gemini-1.5-pro", "gemini-1.5-flash">>]

(* PROVIDERS is a plain object literal: PROVIDERS[name] is also truthy for *)
(* the names every object inherits from Object.prototype.                  *)
ObjectPrototypeNames == {"constructor"}
PROVIDERS_truthy(name) == name \in Providers \cup ObjectPrototypeNames

(* The request body's fields.  A message is a sequence of words, <<>> the  *)
(* missing (or empty) message.  A model is absent, a string cut at its "/" *)
(* characters into segments, or a value that is not a string.              *)
NoMessage == <<>>
Messages == {NoMessage, <<"fix", "typo">>, <<"BUILD", "it">>, <<"app">>,
             <<"production">>}
Absent == [kind |-> "absent", segs |-> <<>>]
NotAString == [kind |-> "number", segs |-> <<>>]
Str(segs) == [kind |-> "string", segs |-> segs]
ModelRequests ==
  {Absent, NotAString, Str(<<"auto">>), Str(<<"gpt-4o">>),
   Str(<<"openai", "gpt-4o">>), Str(<<"groq", "llama-3.1-8b-instant">>),
   Str(<<"gemini", "gemini-1.5-pro">>),
   Str(<<"anthropic", "claude-sonnet-4-20250514">>),
   Str(<<"nosuch", "m">>), Str(<<"constructor", "m">>),
   Str(<<"claude-haiku">>), Str(<<"llama-70b">>), Str(<<"gemini-flash">>)}

toLowerCase(w) == IF w = "BUILD" THEN "build" ELSE w

complexKeywords(i) ==
  {"build", "create", "full", "complex", "application", "system", "complete"}
    \cup (IF i = "ai" THEN {"production"} ELSE {"app"})

isComplex(i, message) ==
  \E n \in 1..Len(message) : toLowerCase(message[n]) \in complexKeywords(i)

Null == [provider |-> "null", model |-> "null"]

(* A variant that asks for the gemini credential before the groq one *)
selectModel_geminiFirst(i, message, keys) ==
  LET m == PROVIDERS_models(i)
      cx == isComplex(i, message)
  IN  IF "anthropic" \in keys
        THEN [provider |-> "anthropic",
              model |-> IF cx THEN m.anthropic[1] ELSE m.anthropic[2]]
      ELSE IF "openai" \in keys
        THEN [provider |-> "openai",
              model |-> IF cx THEN "gpt-4o" ELSE "gpt-4o-mini"]
      ELSE IF "gemini" \in keys
        THEN [provider |-> "gemini",
              model |-> IF cx THEN "gemini-1.5-pro" ELSE "gemini-1.5-flash"]
      ELSE IF "groq" \in keys
        THEN [provider |-> "groq", model |-> "llama-3.3-70b-versatile"]
      ELSE [provider |-> "null", model |-> "null"]

(* selectModel(message), reading the credentials keys from process.env *)
selectModel(i, message, keys) ==
  LET m == PROVIDERS_models(i)
      cx == isComplex(i, message)
  IN  IF "anthropic" \in keys
        THEN [provider |-> "anthropic",
              model |-> IF cx THEN m.anthropic[1] ELSE m.anthropic[2]]
      ELSE IF "openai" \in keys
        THEN [provider |-> "openai",
              model |-> IF cx THEN "gpt-4o" ELSE "gpt-4o-mini"]
      ELSE IF "groq" \in keys
        THEN [provider |-> "groq", model |-> "llama-3.3-70b-versatile"]
      ELSE IF "gemini" \in keys
        THEN [provider |-> "gemini",
              model |-> IF cx THEN "gemini-1.5-pro" ELSE "gemini-1.5-flash"]
      ELSE Null

(* The model parsing of /stream: ai.js inlines it in the try block,       *)
(* index.js has it as parseModel.  threw is TRUE when the evaluation       *)
(* raises a TypeError (model.includes on a value that is not a string).    *)
parseModel(i, model, message, keys) ==
  IF model.kind = "absent" \/ model.segs = <<"auto">>
    THEN [threw |-> FALSE, selected |-> selectModel(i, message, keys)]
  ELSE IF model.kind # "string"
    THEN [threw |-> TRUE, selected |-> Null]
  ELSE LET parts == IF Len(model.segs) > 1 THEN model.segs
                    ELSE <<"auto", model.segs[1]>>
       IN  IF parts[1] # "auto" /\ PROVIDERS_truthy(parts[1])
             THEN [threw |-> FALSE,
                   selected |-> [provider |-> parts[1], model |-> parts[2]]]
             ELSE [threw |-> FALSE,
                   selected |-> selectModel(i, message, keys)]

(* part_002: getProvider(model) looks at the prefix of the whole string,   *)
(* so of its first segment.                                                *)
startsWith(name, prefix) ==
  name \in (CASE prefix = "claude" ->
                   {"claude-haiku", "claude-sonnet", "claude-sonnet-4-20250514"}
              [] prefix = "gpt"    -> {"gpt-4o", "gpt-4o-mini"}
              [] prefix = "llama"  -> {"llama-70b", "llama-8b",
                                       "llama-3.3-70b-versatile",
                                       "llama-3.1-8b-instant"}
              [] prefix = "gemini" -> {"gemini", "gemini-flash", "gemini-pro",
                                       "gemini-1.5-pro", "gemini-1.5-flash"})

getProvider(model) ==
  LET name == IF model.kind = "absent" THEN "claude-sonnet" ELSE model.segs[1]
  IN  IF model.kind = "number" THEN [threw |-> TRUE, provider |-> "null"]
      ELSE IF startsWith(name, "claude") THEN [threw |-> FALSE, provider |-> "claude"]
      ELSE IF startsWith(name, "gpt") THEN [threw |-> FALSE, provider |-> "openai"]
      ELSE IF startsWith(name, "llama") THEN [threw |-> FALSE, provider |-> "groq"]
      ELSE IF startsWith(name, "gemini") THEN [threw |-> FALSE, provider |-> "gemini"]
      ELSE [threw |-> FALSE, provider |-> "claude"]

----------------------------------------------------------------------------
(* Upstream bodies.                                                         *)

(* The lines an SSE-style provider can send. *)
DeltaLine(t) == <<"data: ", "{">> \o t \o <<"}">>
LineTemplates ==
  {DeltaLine(<<"Hello">>), DeltaLine(<<"world">>),
   DeltaLine(<<"e1", "e2">>),    \* a delta whose text is a two-byte character
   <<"data: ", "{", "x">>,       \* a payload that is not valid JSON
   <<"data: ", "{}">>,           \* a JSON event that is no text delta
   <<"data: ", "[DONE]">>,       \* the termination sentinel
   <<"event">>}                  \* a line that is not a payload line

(* A line with its newline *)
SSEUnits == {l \o <<NL>> : l \in LineTemplates}

(* What a provider answers with a non-success status: an error envelope,   *)
(* one JSON object, not framed as SSE.                                      *)
ErrorEnvelope == <<"{}">>

(* Gemini's JSON: a part object {"text": t} inside its candidate object.   *)
GeminiTexts == {<<>>, <<"Hello">>, <<"Hello", " ", "world">>,
                <<"Hello", " ", "world", " ", "foo">>}
GeminiObject(t) == <<"o", "{">> \o t \o <<"}", "c">>
GeminiObjects == {GeminiObject(t) : t \in GeminiTexts} \cup {<<"o", "c">>}

(* generateContent: one JSON object, or bytes that are not JSON *)
GeminiJsonBodies == {GeminiObject(t) : t \in GeminiTexts} \cup {<<"x">>}

----------------------------------------------------------------------------
(* Parsing.                                                                 *)

(* Buffer.prototype.toString(): UTF-8 decoding of one chunk *)
RECURSIVE toString(_)
toString(b) ==
  IF b = <<>> THEN <<>>
  ELSE IF b[1] = "e1" /\ Len(b) >= 2 /\ b[2] = "e2"
    THEN <<"E">> \o toString(SubSeq(b, 3, Len(b)))
  ELSE IF b[1] \in {"e1", "e2"} THEN <<"?">> \o toString(Tail(b))
  ELSE <<b[1]>> \o toString(Tail(b))

NoNewline(s) == \A n \in 1..Len(s) : s[n] # NL

(* String.prototype.split('\n'): the fragments between the newlines *)
RECURSIVE split(_)
split(s) ==
  IF NoNewline(s) THEN <<s>>
  ELSE LET n == CHOOSE n \in 1..Len(s) : s[n] = NL /\ NoNewline(SubSeq(s, 1, n - 1))
       IN  <<SubSeq(s, 1, n - 1)>> \o split(SubSeq(s, n + 1, Len(s)))

startsWithData(line) == Len(line) >= 1 /\ line[1] = "data: "
slice6(line) == SubSeq(line, 2, Len(line))
includesDONE(line) == \E n \in 1..Len(line) : line[n] = "[DONE]"

IsText(t) == \A n \in 1..Len(t) : t[n] \in TextTok

(* JSON.parse of a payload, and the family's text field of the result.     *)
(* delta: the value has the shape of the family's text delta.              *)
JSONparse(data) ==
  IF data = <<"{}">>
    THEN [ok |-> TRUE, delta |-> FALSE, text |-> <<>>]
  ELSE IF Len(data) >= 2 /\ data[1] = "{" /\ data[Len(data)] = "}"
          /\ IsText(SubSeq(data, 2, Len(data) - 1))
    THEN [ok |-> TRUE, delta |-> TRUE, text |-> SubSeq(data, 2, Len(data) - 1)]
  ELSE [ok |-> FALSE, delta |-> FALSE, text |-> <<>>]

(* A variant that answers the sentinel with a Done frame and reads on *)
anthropicLine_doneOnSentinel(line) ==
  IF ~startsWithData(line) THEN <<>>
  ELSE LET data == slice6(line)
       IN  IF data = <<"[DONE]">> THEN <<DoneFrame>>
           ELSE LET parsed == JSONparse(data)
                IN  IF parsed.ok /\ parsed.delta /\ parsed.text # <<>>
                      THEN <<TextFrame(parsed.text)>>
                      ELSE <<>>

(* ai.js / index.js, anthropic branch: the body of `for (const line of lines)` *)
anthropicLine(line) ==
  IF ~startsWithData(line) THEN <<>>
  ELSE LET data == slice6(line)
       IN  IF data = <<"[DONE]">> THEN <<>>
           ELSE LET parsed == JSONparse(data)
                IN  IF parsed.ok /\ parsed.delta /\ parsed.text # <<>>
                      THEN <<TextFrame(parsed.text)>>
                      ELSE <<>>

(* A variant without the try/catch around JSON.parse: the SyntaxError is *)
(* reported to the client.                                                *)
openaiLine_noCatch(line) ==
  IF ~startsWithData(line) THEN <<>>
  ELSE LET data == slice6(line)
       IN  IF data = <<"[DONE]">> THEN <<>>
           ELSE LET parsed == JSONparse(data)
                IN  IF ~parsed.ok THEN <<ErrorFrame("SyntaxError")>>
                    ELSE IF parsed.delta /\ parsed.text # <<>>
                      THEN <<TextFrame(parsed.text)>>
                      ELSE <<>>

(* ai.js / index.js, openai and groq branch *)
openaiLine(line) ==
  IF ~startsWithData(line) THEN <<>>
  ELSE LET data == slice6(line)
       IN  IF data = <<"[DONE]">> THEN <<>>
           ELSE LET parsed == JSONparse(data)
                IN  IF parsed.ok /\ parsed.delta /\ parsed.text # <<>>
                      THEN <<TextFrame(parsed.text)>>
                      ELSE <<>>

(* part_002, claude branch: no sentinel test, and a delta without text is  *)
(* written as the empty text.                                               *)
claudeLine2(line) ==
  IF ~startsWithData(line) THEN <<>>
  ELSE LET data == JSONparse(slice6(line))
       IN  IF data.ok /\ data.delta THEN <<TextFrame(data.text)>> ELSE <<>>

(* part_002, openai and groq branch *)
openaiLine2(line) ==
  IF ~(startsWithData(line) /\ ~includesDONE(line)) THEN <<>>
  ELSE LET data == JSONparse(slice6(line))
       IN  IF data.ok /\ data.delta /\ data.text # <<>>
             THEN <<TextFrame(data.text)>>
             ELSE <<>>

(* part_002, gemini branch (alt=sse) *)
geminiLine2(line) ==
  IF ~startsWithData(line) THEN <<>>
  ELSE LET data == JSONparse(slice6(line))
       IN  IF data.ok /\ data.delta /\ data.text # <<>>
             THEN <<TextFrame(data.text)>>
             ELSE <<>>

lineFrames(i, p, line) ==
  CASE i = "part2" /\ p = "claude"          -> claudeLine2(line)
    [] i = "part2" /\ p \in {"openai", "groq"} -> openaiLine2(line)
    [] i = "part2" /\ p = "gemini"          -> geminiLine2(line)
    [] i # "part2" /\ p = "anthropic"       -> anthropicLine(line)
    [] OTHER                                 -> openaiLine(line)

RECURSIVE forLines(_, _, _)
forLines(i, p, lines) ==
  IF lines = <<>> THEN <<>>
  ELSE lineFrames(i, p, lines[1]) \o forLines(i, p, Tail(lines))

RECURSIVE Reverse(_)
Reverse(q) == IF q = <<>> THEN <<>> ELSE Append(Reverse(Tail(q)), q[1])

(* A variant that walks the lines of a chunk from the last to the first *)
onData_reversed(i, p, buf, chunk) ==
  LET lines == split(buf \o toString(chunk))
  IN  [buffer |-> Last(lines), out |-> forLines(i, p, Reverse(Front(lines)))]

(* ai.js / index.js reader.on('data'): append to the buffer, split, keep   *)
(* the last fragment, handle the others.                                    *)
onData(i, p, buf, chunk) ==
  LET lines == split(buf \o toString(chunk))
  IN  [buffer |-> Last(lines), out |-> forLines(i, p, Front(lines))]

(* part_002 `for await (const chunk of response.body)`: every fragment of  *)
(* the chunk is handled, nothing is kept.                                   *)
onChunk2(p, chunk) ==
  [buffer |-> <<>>, out |-> forLines("part2", p, split(toString(chunk)))]

(* ai.js gemini: buffer.match(/\{[^{}]*"text"[^{}]*\}/g), each match       *)
(* parsed and written when its text is not empty.                           *)
RECURSIVE geminiMatches(_)
geminiMatches(buf) ==
  IF buf = <<>> THEN <<>>
  ELSE IF buf[1] = "{" /\ \E m \in 2..Len(buf) :
                             buf[m] = "}" /\ IsText(SubSeq(buf, 2, m - 1))
    THEN LET m == CHOOSE m \in 2..Len(buf) :
                      buf[m] = "}" /\ IsText(SubSeq(buf, 2, m - 1))
         IN  <<SubSeq(buf, 2, m - 1)>> \o geminiMatches(SubSeq(buf, m + 1, Len(buf)))
    ELSE geminiMatches(Tail(buf))

RECURSIVE writeMatches(_)
writeMatches(ms) ==
  IF ms = <<>> THEN <<>>
  ELSE (IF ms[1] # <<>> THEN <<TextFrame(ms[1])>> ELSE <<>>)
         \o writeMatches(Tail(ms))

geminiOnData(buf, chunk) ==
  LET buffer2 == buf \o toString(chunk)
  IN  [buffer |-> buffer2, out |-> writeMatches(geminiMatches(buffer2))]

(* index.js gemini: await response.json(), then the first candidate's text *)
geminiJson(bytes) ==
  LET b == toString(bytes)
      parsed == IF b = <<"{}">> THEN [ok |-> TRUE, text |-> <<>>]
                ELSE IF Len(b) >= 4 /\ b = GeminiObject(SubSeq(b, 3, Len(b) - 2))
                        /\ IsText(SubSeq(b, 3, Len(b) - 2))
                  THEN [ok |-> TRUE, text |-> SubSeq(b, 3, Len(b) - 2)]
                ELSE [ok |-> FALSE, text |-> <<>>]
  IN  [ok |-> parsed.ok,
       text |-> IF parsed.text # <<>> THEN parsed.text ELSE <<"No response">>]

(* The handler a chunk goes to *)
handleChunk(i, p, buf, chunk) ==
  IF i = "part2" THEN onChunk2(p, chunk)
  ELSE IF p = "gemini" THEN geminiOnData(buf, chunk)
  ELSE onData(i, p, buf, chunk)

(* The upstream of a branch.  A body is a sequence of units, each ending  *)
(* in its terminator token: the lines of an SSE stream, or the objects of  *)
(* Gemini's JSON array.  A body holds at most MaxUnits units and MaxBytes   *)
(* tokens, and may stop inside a unit.                                      *)
UnitsFor(i, p) == IF i = "ai" /\ p = "gemini" THEN GeminiObjects ELSE SSEUnits
TerminatorFor(i, p) == IF i = "ai" /\ p = "gemini" THEN "c" ELSE NL

IsPrefix(a, b) == Len(a) <= Len(b) /\ a = SubSeq(b, 1, Len(a))
Min(a, b) == IF a <= b THEN a ELSE b

(* The tokens of s after its last terminator, and the units s has begun *)
RECURSIVE CurrentUnit(_, _)
CurrentUnit(s, t) ==
  IF s = <<>> \/ Last(s) = t THEN <<>>
  ELSE Append(CurrentUnit(Front(s), t), Last(s))
UnitsBegun(s, t) ==
  Cardinality({n \in 1..Len(s) : s[n] = t})
    + (IF CurrentUnit(s, t) = <<>> THEN 0 ELSE 1)

(* The chunks that can follow: a non-empty run of at most `left` tokens    *)
(* that continues the unit begun (cur) and then begins at most `units`     *)
(* further units.                                                           *)
RECURSIVE ChunksFrom(_, _, _, _)
ChunksFrom(cur, left, units, U) ==
  IF left <= 0 \/ (cur = <<>> /\ units <= 0) THEN {}
  ELSE LET cands == {u \in U : IsPrefix(cur, u)}
           after == IF cur = <<>> THEN units - 1 ELSE units
           runs == UNION {{SubSeq(u, Len(cur) + 1, j) :
                             j \in (Len(cur) + 1)..Min(Len(u), Len(cur) + left)} :
                          u \in cands}
           whole == {SubSeq(u, Len(cur) + 1, Len(u)) :
                       u \in {v \in cands : Len(v) - Len(cur) < left}}
       IN  runs \cup UNION {{c \o d : d \in ChunksFrom(<<>>, left - Len(c), after, U)} :
                            c \in whole}

NextChunks(i, p, st, s) ==
  IF st = "error" THEN (IF s = <<>> THEN {ErrorEnvelope} ELSE {})
  ELSE ChunksFrom(CurrentUnit(s, TerminatorFor(i, p)), MaxBytes - Len(s),
                  MaxUnits - UnitsBegun(s, TerminatorFor(i, p)), UnitsFor(i, p))

----------------------------------------------------------------------------
(* The handler.                                                             *)

(* The state of the variables a specification does not use *)
NoRequest ==
  [endpoint |-> "none", message |-> <<>>, model |-> Absent, context |-> <<>>]
NoReply == [status |-> 0, kind |-> "none", models |-> <<>>]
ApiIdle ==
  /\ env = {}
  /\ req = NoRequest
  /\ context = <<>>
  /\ outbound = <<>>
  /\ reply = NoReply
ConcIdle ==
  /\ conns = <<>>
  /\ buffers = <<>>
NoCall ==
  [op |-> "none", project |-> "", id |-> "", path |-> "", value |-> "",
   threw |-> FALSE, status |-> 0, error |-> "", rows |-> {}]
DbIdle ==
  /\ projects = {}
  /\ project_files = {}
  /\ deployments = {}
  /\ uuids = 0
  /\ called = NoCall
  /\ deploying = {}
WsIdle ==
  /\ clients = <<>>
  /\ sockets = <<>>
  /\ received = [channel |-> "", sockets |-> {}]
  /\ now = 0

Init ==
  /\ impl \in Impls
  /\ pc = "idle"
  /\ provider = "null"
  /\ headersSent = FALSE
  /\ httpStatus = 0
  /\ upstreamStatus = "none"
  /\ sent = <<>>
  /\ buffer = <<>>
  /\ frames = <<>>
  /\ ended = 0
  /\ fetches = 0
  /\ ApiIdle
  /\ ConcIdle
  /\ DbIdle
  /\ WsIdle

(* What the synchronous part of the handler leaves behind *)
Rejected400 ==
  [pc |-> "rejected", provider |-> "null", headersSent |-> FALSE,
   httpStatus |-> 400, frames |-> <<>>, ended |-> 0, fetches |-> 0]
Caught(msg, hdr) ==
  [pc |-> "ended", provider |-> "null", headersSent |-> hdr,
   httpStatus |-> 200, frames |-> <<ErrorFrame(msg)>>, ended |-> 1, fetches |-> 0]
Unhandled ==
  [pc |-> "hung", provider |-> "null", headersSent |-> TRUE,
   httpStatus |-> 200, frames |-> <<>>, ended |-> 0, fetches |-> 0]
Fetching(p) ==
  [pc |-> "fetching", provider |-> p, headersSent |-> TRUE,
   httpStatus |-> 200, frames |-> <<>>, ended |-> 0, fetches |-> 1]

(* A variant without the validation of the message *)
streamAi_unvalidated(message, model, keys) ==
  LET r == parseModel("ai", model, message, keys)
  IN  IF r.threw THEN Caught("TypeError", TRUE)
      ELSE IF r.selected = Null THEN Caught("No AI provider configured", TRUE)
      ELSE Fetching(r.selected.provider)

(* ai.js: validation, headers, then everything inside try *)
streamAi(message, model, keys) ==
  IF message = NoMessage THEN Rejected400
  ELSE LET r == parseModel("ai", model, message, keys)
       IN  IF r.threw THEN Caught("TypeError", TRUE)
           ELSE IF r.selected = Null THEN Caught("No AI provider configured", TRUE)
           ELSE IF r.selected.provider \notin Providers
             THEN Caught("TypeError", TRUE)        \* PROVIDERS[provider].getKey
           ELSE Fetching(r.selected.provider)

(* index.js: parseModel and getKey run before the try block *)
streamIndex(message, model, keys) ==
  IF message = NoMessage THEN Rejected400
  ELSE LET r == parseModel("index", model, message, keys)
       IN  IF r.threw THEN Unhandled
           ELSE IF r.selected = Null THEN Caught("No AI provider configured", TRUE)
           ELSE IF r.selected.provider \notin Providers THEN Unhandled
           ELSE Fetching(r.selected.provider)

(* part_002: all inside try; getProvider runs before the headers are set;  *)
(* the request body is built from `messages` (here: message).               *)
streamPart2(message, model) ==
  LET g == getProvider(model)
  IN  IF g.threw THEN Caught("TypeError", FALSE)
      ELSE IF message = NoMessage /\ g.provider # "claude"
        THEN Caught("TypeError", TRUE)    \* ...messages, messages.map
      ELSE Fetching(g.provider)

Request ==
  /\ pc = "idle"
  /\ \E message \in Messages, model \in ModelRequests, keys \in SUBSET Providers :
       LET r == CASE impl = "ai"    -> streamAi(message, model, keys)
                  [] impl = "index" -> streamIndex(message, model, keys)
                  [] OTHER          -> streamPart2(message, model)
       IN  /\ pc' = r.pc
           /\ provider' = r.provider
           /\ headersSent' = r.headersSent
           /\ httpStatus' = r.httpStatus
           /\ frames' = r.frames
           /\ ended' = r.ended
           /\ fetches' = r.fetches
  /\ UNCHANGED <<impl, upstreamStatus, sent, buffer>>
  /\ UNCHANGED <<apiVars, concVars, dbVars, wsVars>>

(* `await fetch(...)` rejects: the catch block *)
catchBlock == [frames |-> Append(frames, ErrorFrame("upstream")), ended |-> ended + 1]

FetchReject ==
  /\ pc = "fetching"
  /\ pc' = "ended"
  /\ frames' = catchBlock.frames
  /\ ended' = catchBlock.ended
  /\ UNCHANGED <<impl, provider, headersSent, httpStatus, upstreamStatus,
                 sent, buffer, fetches>>
  /\ UNCHANGED <<apiVars, concVars, dbVars, wsVars>>

(* `await fetch(...)` resolves with a response of any status; the handlers *)
(* never read response.ok or response.status.                                *)
FetchResolve ==
  /\ pc = "fetching"
  /\ upstreamStatus' \in {"ok", "error"}
  /\ pc' = IF impl = "index" /\ provider = "gemini" THEN "json" ELSE "streaming"
  /\ buffer' = <<>>
  /\ UNCHANGED <<impl, provider, headersSent, httpStatus, sent, frames,
                 ended, fetches>>
  /\ UNCHANGED <<apiVars, concVars, dbVars, wsVars>>

(* The body delivers its next chunk: the 'data' listener, or one turn of   *)
(* the for-await loop.                                                       *)
Data ==
  /\ pc = "streaming"
  /\ \E chunk \in NextChunks(impl, provider, upstreamStatus, sent) :
       LET r == handleChunk(impl, provider, buffer, chunk)
       IN  /\ sent' = sent \o chunk
           /\ buffer' = r.buffer
           /\ frames' = frames \o r.out
  /\ UNCHANGED <<impl, pc, provider, headersSent, httpStatus, upstreamStatus,
                 ended, fetches>>
  /\ UNCHANGED <<apiVars, concVars, dbVars, wsVars>>

(* A variant that ends the response without the marker *)
onEnd_silent(i) == <<>>

(* The body closes: the 'end' listener, or the statements after the loop *)
onEnd(i) == <<IF i = "part2" THEN DoneSentinelFrame ELSE DoneFrame>>

End ==
  /\ pc = "streaming"
  /\ pc' = "ended"
  /\ frames' = frames \o onEnd(impl)
  /\ ended' = ended + 1
  /\ UNCHANGED <<impl, provider, headersSent, httpStatus, upstreamStatus,
                 sent, buffer, fetches>>
  /\ UNCHANGED <<apiVars, concVars, dbVars, wsVars>>

(* The body stream fails.  ai.js and index.js register no 'error' listener *)
(* and the handler has returned: nothing is written and res.end is not     *)
(* called (whether the process survives the event or not).  In part_002    *)
(* the for-await loop throws into the catch block, in index.js's gemini    *)
(* branch `await response.json()` does.                                     *)
BodyError ==
  /\ pc \in {"streaming", "json"}
  /\ IF impl = "part2" \/ pc = "json"
       THEN /\ pc' = "ended"
            /\ frames' = catchBlock.frames
            /\ ended' = catchBlock.ended
       ELSE /\ pc' = "hung"
            /\ UNCHANGED <<frames, ended>>
  /\ UNCHANGED <<impl, provider, headersSent, httpStatus, upstreamStatus,
                 sent, buffer, fetches>>
  /\ UNCHANGED <<apiVars, concVars, dbVars, wsVars>>

(* index.js gemini: response.json() settles on the whole body *)
geminiRespond(b) ==
  LET data == geminiJson(b)
  IN  IF data.ok THEN <<TextFrame(data.text), DoneFrame>>
      ELSE <<ErrorFrame("upstream")>>

JsonResolved ==
  /\ pc = "json"
  /\ \E b \in IF upstreamStatus = "ok" THEN GeminiJsonBodies ELSE {ErrorEnvelope} :
       /\ sent' = b
       /\ frames' = frames \o geminiRespond(b)
  /\ pc' = "ended"
  /\ ended' = ended + 1
  /\ UNCHANGED <<impl, provider, headersSent, httpStatus, upstreamStatus,
                 buffer, fetches>>
  /\ UNCHANGED <<apiVars, concVars, dbVars, wsVars>>

Next ==
  \/ Request
  \/ FetchReject
  \/ FetchResolve
  \/ Data
  \/ End
  \/ BodyError
  \/ JsonResolved

Spec == Init /\ [][Next]_vars

----------------------------------------------------------------------------
(* /models, /chat and the request translation of /stream.                   *)
(* The routers: the three of the /stream handlers, and "part2map", the      *)
(* first router of part_002, whose /chat looks the model up in MODEL_MAP.   *)

ApiImpls == Impls \cup {"part2map"}

(* The providers that have a credential.  ai.js and index.js read it from  *)
(* process.env at each call; part_002 reads ANTHROPIC_API_KEY and          *)
(* OPENAI_API_KEY from process.env and holds the other two as literals.    *)
credentials(i, e) ==
  IF i \in {"ai", "index"} THEN e
  ELSE (e \cap {"anthropic", "openai"}) \cup {"groq", "gemini"}

(* part_002 calls the anthropic provider "claude" *)
registryName(p) == IF p = "claude" THEN "anthropic" ELSE p

(* A conversation turn.  A content is the turn's number in the client's    *)
(* history (0: the new message, -1: the system prompt) and its words.       *)
MaxContext == 11
ContextWindow == 10

Turn(k) ==
  [role |-> CASE k % 3 = 1 -> "user" [] k % 3 = 2 -> "assistant" [] OTHER -> "system",
   content |-> [turn |-> k, words |-> <<>>]]
Context(n) == [k \in 1..n |-> Turn(k)]
Contexts == {Context(n) : n \in {0, 1, 3, MaxContext - 1, MaxContext}}
UserTurn(message) == [role |-> "user", content |-> [turn |-> 0, words |-> message]]
SystemContent == [turn |-> -1, words |-> <<"SYSTEM_PROMPT">>]

(* A variant that takes the last n elements out of the array: splice(-n) *)
slice_splice(a, n) ==
  IF Len(a) <= n THEN [result |-> a, receiver |-> <<>>]
  ELSE [result |-> SubSeq(a, Len(a) - n + 1, Len(a)),
        receiver |-> SubSeq(a, 1, Len(a) - n)]

(* Array.prototype.slice(-n): the last n elements, in a new array; the     *)
(* receiver is the array afterwards.                                        *)
slice(a, n) ==
  IF Len(a) <= n THEN [result |-> a, receiver |-> a]
  ELSE [result |-> SubSeq(a, Len(a) - n + 1, Len(a)), receiver |-> a]

(* ai.js / index.js: const messages = [...context.slice(-10), {user}];     *)
(* part_002 takes `messages` from the request body as it is.                *)
buildMessages(i, ctx, message) ==
  IF i \in {"ai", "index"}
    THEN LET s == slice(ctx, ContextWindow)
         IN  [messages |-> Append(s.result, UserTurn(message)), context |-> s.receiver]
    ELSE [messages |-> IF message = NoMessage THEN <<>> ELSE ctx, context |-> ctx]

anthropicRole(r) == IF r = "assistant" THEN "assistant" ELSE "user"
geminiRole(r) == IF r = "assistant" THEN "model" ELSE "user"
anthropicMap(msgs) ==
  [k \in 1..Len(msgs) |->
     [role |-> anthropicRole(msgs[k].role), content |-> msgs[k].content]]
geminiMap(msgs) ==
  [k \in 1..Len(msgs) |->
     [role |-> geminiRole(msgs[k].role), content |-> msgs[k].content]]

(* The body of the provider request of /stream.  system: where the system  *)
(* prompt goes.                                                             *)
streamBody(i, p, messages, message) ==
  CASE p = "anthropic" ->
         [system |-> "field", messages |-> anthropicMap(messages)]
    [] p = "claude" ->
         [system |-> "field", messages |-> messages]
    [] p \in {"openai", "groq"} ->
         [system |-> "message",
          messages |-> <<[role |-> "system", content |-> SystemContent]>> \o messages]
    [] p = "gemini" /\ i = "ai" ->
         [system |-> "part",
          messages |-> <<[role |-> "user", content |-> SystemContent]>>
                         \o geminiMap(messages)]
    [] p = "gemini" /\ i = "index" ->
         [system |-> "part",
          messages |-> <<[role |-> "user",
                          content |-> [turn |-> 0,
                                       words |-> <<"SYSTEM_PROMPT">> \o message]]>>]
    [] OTHER ->
         [system |-> "instruction", messages |-> geminiMap(messages)]

(* part_002: providers[provider].models[model] || model *)
modelId(name) ==
  CASE name = "claude-sonnet" -> "claude-sonnet-4-20250514"
    [] name = "claude-haiku"  -> "claude-3-haiku-20240307"
    [] name = "llama-70b"     -> "llama-3.3-70b-versatile"
    [] name = "llama-8b"      -> "llama-3.1-8b-instant"
    [] name = "gemini-flash"  -> "gemini-2.5-flash"
    [] name = "gemini-pro"    -> "gemini-2.5-pro"
    [] OTHER                  -> name

(* The model string as the client wrote it *)
modelString(model) ==
  IF model.kind = "absent" THEN "claude-sonnet"
  ELSE IF Len(model.segs) = 1 THEN model.segs[1]
  ELSE "slashed"

(* What /stream selects: the provider and the model of the request it      *)
(* issues.                                                                  *)
streamSelected(i, message, model, e) ==
  IF i \in {"ai", "index"} THEN parseModel(i, model, message, e).selected
  ELSE [provider |-> getProvider(model).provider,
        model |-> modelId(modelString(model))]

(* The request handed to fetch *)
ProviderRequest(i, sel, e, body) ==
  [provider |-> sel.provider, model |-> sel.model,
   hasKey |-> registryName(sel.provider) \in credentials(i, e), body |-> body]

(* GET /models of ai.js and index.js: Object.entries(PROVIDERS) in         *)
(* insertion order, the models of every provider whose getKey() is truthy. *)
RegistryOrder == <<"anthropic", "openai", "groq", "gemini">>

RECURSIVE availableFrom(_, _, _)
availableFrom(i, e, ps) ==
  IF ps = <<>> THEN <<>>
  ELSE (IF ps[1] \in e
          THEN [k \in 1..Len(PROVIDERS_models(i)[ps[1]]) |->
                  [provider |-> ps[1], model |-> PROVIDERS_models(i)[ps[1]][k]]]
          ELSE <<>>)
         \o availableFrom(i, e, Tail(ps))

(* A variant that lists the registry without looking at the credentials *)
available_unfiltered(i, e) == availableFrom(i, Providers, RegistryOrder)

available(i, e) == availableFrom(i, e, RegistryOrder)

(* The requests.  For part_002 the request body holds `messages`: it is    *)
(* the context, and it is missing when message is NoMessage.                *)
wordLength(w) ==
  CASE w = "x99" -> 99 [] w = "x100" -> 100 [] w = "x500" -> 500 [] w = "x501" -> 501
    [] w = "production" -> 10 [] w = "BUILD" -> 5 [] w = "typo" -> 4
    [] w \in {"fix", "app"} -> 3 [] OTHER -> 2

(* message.length: the words and the spaces between them *)
RECURSIVE length(_)
length(message) ==
  IF message = <<>> THEN 0
  ELSE wordLength(message[1])
         + (IF Len(message) > 1 THEN 1 + length(Tail(message)) ELSE 0)

ApiMessages == Messages \cup {<<"x99">>, <<"x100">>, <<"x500">>, <<"x501">>}

(* part_002, first router: MODEL_MAP[model] || MODEL_MAP['auto'] *)
MODEL_MAP_lookup(model) ==
  LET name == IF model.kind = "string" /\ Len(model.segs) = 1
                THEN model.segs[1] ELSE "auto"
  IN  CASE name = "claude-haiku" ->
             [provider |-> "claude", model |-> "claude-3-haiku-20240307"]
        [] name \in {"gpt-4o", "gpt-4o-mini"} ->
             [provider |-> "openai", model |-> name]
        [] name = "llama-70b" ->
             [provider |-> "groq", model |-> "llama-3.3-70b-versatile"]
        [] name = "llama-8b" ->
             [provider |-> "groq", model |-> "llama-3.1-8b-instant"]
        [] name = "gemini-flash" ->
             [provider |-> "gemini", model |-> "gemini-2.5-flash-preview-04-17"]
        [] name = "gemini-pro" ->
             [provider |-> "gemini", model |-> "gemini-2.5-pro-preview-05-06"]
        [] OTHER ->
             [provider |-> "claude", model |-> "claude-sonnet-4-20250514"]

(* What /chat does before it awaits the provider.  kind "fetch": it has    *)
(* issued the provider request; "unhandled": it threw outside try.          *)
Answer(status, kind) == [status |-> status, kind |-> kind, selected |-> Null]
Fetch(sel) == [status |-> 0, kind |-> "fetch", selected |-> sel]

chatAi(message, model, e) ==
  IF message = NoMessage THEN Answer(400, "messageRequired")
  ELSE LET r == parseModel("ai", model, message, e)
       IN  IF r.threw THEN Answer(500, "error")
           ELSE IF r.selected = Null THEN Answer(500, "noProvider")
           ELSE IF r.selected.provider \notin Providers THEN Answer(500, "error")
           ELSE Fetch(r.selected)

chatIndex(message, model, e) ==
  IF message = NoMessage THEN Answer(400, "messageRequired")
  ELSE LET r == parseModel("index", model, message, e)
       IN  IF r.threw THEN Answer(0, "unhandled")
           ELSE IF r.selected = Null THEN Answer(500, "noProvider")
           ELSE IF r.selected.provider \notin Providers THEN Answer(0, "unhandled")
           ELSE Fetch(r.selected)

chatMap(message, model) ==
  LET config == MODEL_MAP_lookup(model)
  IN  IF message = NoMessage /\ config.provider # "claude"
        THEN Answer(500, "error")          \* ...messages, messages.map
      ELSE Fetch(config)

chatPart2(message, model) ==
  LET g == getProvider(model)
  IN  IF g.threw THEN Answer(500, "error")
      ELSE IF message = NoMessage /\ g.provider # "claude" THEN Answer(500, "error")
      ELSE Fetch([provider |-> g.provider, model |-> modelId(modelString(model))])

chat(i, message, model, e) ==
  CASE i = "ai"       -> chatAi(message, model, e)
    [] i = "index"    -> chatIndex(message, model, e)
    [] i = "part2map" -> chatMap(message, model)
    [] OTHER          -> chatPart2(message, model)

(* The body of /chat's provider request: ai.js and index.js send the new   *)
(* message alone, part_002 the `messages` of the request.                   *)
chatBody(i, p, ctx, message) ==
  IF i \in {"ai", "index"}
    THEN streamBody(IF p = "gemini" THEN "index" ELSE i, p, <<UserTurn(message)>>, message)
    ELSE streamBody("part2", p, ctx, message)

(* How the provider answers /chat's request, and what /chat replies *)
Upstreams == {"reject", "ok", "error", "notJson"}

chatReply(i, p, u) ==
  CASE u \in {"reject", "notJson"} -> Answer(500, "error")
    [] u = "ok" -> Answer(200, "text")
    [] u = "error" /\ (i = "ai" \/ (i = "index" /\ p = "gemini")) ->
         Answer(200, "noResponse")
    [] OTHER -> Answer(200, "providerError")

(* /stream up to the provider request, by router *)
streamSetup(i, message, model, e) ==
  CASE i = "ai"    -> streamAi(message, model, e)
    [] i = "index" -> streamIndex(message, model, e)
    [] OTHER       -> streamPart2(message, model)

InitApi ==
  /\ impl \in ApiImpls
  /\ pc = "idle"
  /\ provider = "null"
  /\ headersSent = FALSE
  /\ httpStatus = 0
  /\ upstreamStatus = "none"
  /\ sent = <<>>
  /\ buffer = <<>>
  /\ frames = <<>>
  /\ ended = 0
  /\ fetches = 0
  /\ env \in SUBSET Providers
  /\ req = NoRequest
  /\ context = <<>>
  /\ outbound = <<>>
  /\ reply = NoReply
  /\ ConcIdle
  /\ DbIdle
  /\ WsIdle

(* POST /stream up to `await fetch(...)`, with the request it hands to     *)
(* fetch and the client's context array as the handler leaves it.           *)
PostStream ==
  /\ pc = "idle"
  /\ impl \in Impls
  /\ \E message \in ApiMessages, model \in ModelRequests, ctx \in Contexts :
       LET r == streamSetup(impl, message, model, env)
           fetched == r.pc = "fetching"
           built == buildMessages(impl, ctx, message)
       IN  /\ req' = [endpoint |-> "stream", message |-> message,
                      model |-> model, context |-> ctx]
           /\ context' = IF fetched THEN built.context ELSE ctx
           /\ outbound' =
                IF fetched
                  THEN <<ProviderRequest(impl, streamSelected(impl, message, model, env),
                           env, streamBody(impl, r.provider, built.messages, message))>>
                  ELSE <<>>
           /\ reply' = [status |-> r.httpStatus,
                        kind |-> IF r.pc = "rejected" THEN "messageRequired" ELSE "sse",
                        models |-> <<>>]
           /\ pc' = r.pc
           /\ provider' = r.provider
           /\ headersSent' = r.headersSent
           /\ httpStatus' = r.httpStatus
           /\ frames' = r.frames
           /\ ended' = r.ended
           /\ fetches' = r.fetches
  /\ UNCHANGED <<impl, upstreamStatus, sent, buffer, env, concVars, dbVars, wsVars>>

(* POST /chat, the provider's answer included *)
PostChat ==
  /\ pc = "idle"
  /\ \E message \in ApiMessages, model \in ModelRequests, ctx \in Contexts,
        u \in Upstreams :
       LET a == chat(impl, message, model, env)
           fetched == a.kind = "fetch"
           b == IF fetched THEN chatReply(impl, a.selected.provider, u) ELSE a
       IN  /\ req' = [endpoint |-> "chat", message |-> message,
                      model |-> model, context |-> ctx]
           /\ context' = ctx
           /\ outbound' =
                IF fetched
                  THEN <<ProviderRequest(impl, a.selected, env,
                           chatBody(impl, a.selected.provider, ctx, message))>>
                  ELSE <<>>
           /\ reply' = [status |-> b.status, kind |-> b.kind, models |-> <<>>]
           /\ pc' = IF b.kind = "unhandled" THEN "hung" ELSE "replied"
           /\ httpStatus' = b.status
           /\ provider' = IF fetched THEN a.selected.provider ELSE "null"
           /\ fetches' = IF fetched THEN 1 ELSE 0
  /\ UNCHANGED <<impl, headersSent, upstreamStatus, sent, buffer, frames, ended,
                 env, concVars, dbVars, wsVars>>

(* GET /models (ai.js and index.js have the route) *)
GetModels ==
  /\ pc = "idle"
  /\ impl \in {"ai", "index"}
  /\ req' = [endpoint |-> "models", message |-> <<>>, model |-> Absent,
             context |-> <<>>]
  /\ reply' = [status |-> 200, kind |-> "models", models |-> available(impl, env)]
  /\ pc' = "replied"
  /\ httpStatus' = 200
  /\ UNCHANGED <<impl, provider, headersSent, upstreamStatus, sent, buffer, frames,
                 ended, fetches, env, context, outbound, concVars, dbVars, wsVars>>

NextApi ==
  \/ PostStream
  \/ PostChat
  \/ GetModels

SpecApi == InitApi /\ [][NextApi]_vars

----------------------------------------------------------------------------
(* Properties.                                                              *)

Terminal(f) == f.kind \in {"done", "error"}
IsTextFrame(f) == f.kind = "text"
TextFrames(fs) == SelectSeq(fs, IsTextFrame)
Texts(fs) == [n \in 1..Len(TextFrames(fs)) |-> TextFrames(fs)[n].text]
CountKind(fs, k) == Cardinality({n \in 1..Len(fs) : fs[n].kind = k})

(* The branch speaks the SSE framing of anthropic, openai or groq *)
SSEStyle == provider \in {"anthropic", "claude", "openai", "groq"}
Buffered == impl \in {"ai", "index"}

(* The lines of s that have been received whole, newline included *)
CompleteLines(s) == Front(split(s))

(* Reference reading of a line: the text of a `data: ` line whose payload  *)
(* is a delta with a non-empty text, and nothing for any other line.        *)
DeltaText(line) ==
  IF Len(line) >= 4 /\ IsText(SubSeq(line, 3, Len(line) - 1))
       /\ line = DeltaLine(SubSeq(line, 3, Len(line) - 1))
    THEN <<SubSeq(line, 3, Len(line) - 1)>>
    ELSE <<>>

RECURSIVE DeltaTexts(_)
DeltaTexts(lines) ==
  IF lines = <<>> THEN <<>>
  ELSE DeltaText(lines[1]) \o DeltaTexts(Tail(lines))

(* C1: once a {done} or an {error} frame has been written to the client,   *)
(* no further frame is written on the connection: a terminal frame is      *)
(* always the last frame written so far.                                    *)
C1_NoFrameAfterTerminal ==
  \A n \in 1..Len(frames) : Terminal(frames[n]) => n = Len(frames)

C1_Witness ==
  /\ pc = "ended"
  /\ SSEStyle
  /\ Len(frames) >= 3
  /\ Terminal(Last(frames))
  /\ \E n \in 1..Len(sent) : sent[n] = "[DONE]"

(* C2: every request whose SSE headers were sent and whose provider call   *)
(* was issued ends the connection exactly once, after a terminal marker,   *)
(* whatever the upstream did (answered, rejected, or failed in the body).  *)
C2_EndsOnceAfterTerminal ==
  (headersSent /\ fetches >= 1 /\ pc \in {"ended", "hung"})
    => (ended = 1 /\ frames # <<>> /\ Terminal(Last(frames)))

(* C3: for an SSE-style provider the text frames written do not depend on  *)
(* how the upstream bytes were cut into chunks: after a normal close they  *)
(* are the text frames of the same bytes handled as one chunk.              *)
C3_ChunkingInvariant ==
  (SSEStyle /\ pc = "ended" /\ Last(frames).kind = "done")
    => TextFrames(frames) = TextFrames(handleChunk(impl, provider, <<>>, sent).out)

InvalidLine == <<"data: ", "{", "x">>
Sandwich(a, b) ==
  DeltaLine(a) \o <<NL>> \o InvalidLine \o <<NL>> \o DeltaLine(b) \o <<NL>>

(* C4: a valid data line, a data line whose payload is not JSON and a      *)
(* second valid data line give exactly the two text frames, in order, no   *)
(* error frame, and the Done marker when the stream closes.                 *)
C4_MalformedFrameSkipped ==
  \A a, b \in {<<"Hello">>, <<"world">>} :
    (Buffered /\ SSEStyle /\ sent = Sandwich(a, b) /\ pc \in {"streaming", "ended"})
      => frames = <<TextFrame(a), TextFrame(b)>>
                    \o (IF pc = "ended" THEN <<DoneFrame>> ELSE <<>>)

C4_Witness ==
  /\ impl = "ai"
  /\ provider = "openai"
  /\ pc = "ended"
  /\ sent = Sandwich(<<"Hello">>, <<"world">>)
  /\ frames = <<TextFrame(<<"Hello">>), TextFrame(<<"world">>), DoneFrame>>

ProviderFailed ==
  /\ fetches >= 1
  /\ \/ pc = "hung"
     \/ pc = "ended" /\ Last(frames) = ErrorFrame("upstream")

(* C5: a provider call that fails before any text frame is retried once    *)
(* against a default provider and the client sees no error frame; one that *)
(* fails after a text frame gives the frames, then an error frame, and no  *)
(* second provider call.                                                    *)
C5_FallbackBoundary ==
  ProviderFailed =>
    IF TextFrames(frames) = <<>>
      THEN fetches = 2 /\ CountKind(frames, "error") = 0
      ELSE fetches = 1 /\ Last(frames).kind = "error"

(* C6: when the provider's response has a non-success status and carries   *)
(* an error envelope, the client gets exactly one error frame, no text     *)
(* frame and no Done frame.                                                 *)
C6_ProviderErrorSingleErrorFrame ==
  (upstreamStatus = "error" /\ sent = ErrorEnvelope /\ pc = "ended")
    => (Len(frames) = 1 /\ frames[1].kind = "error")

RECURSIVE Undecoded(_)
Undecoded(t) ==
  IF t = <<>> THEN <<>>
  ELSE (IF t[1] = "E" THEN <<"?", "?">> ELSE <<t[1]>>) \o Undecoded(Tail(t))
SameTexts(ts, us) ==
  Len(ts) = Len(us) /\ \A n \in 1..Len(ts) : Undecoded(ts[n]) = Undecoded(us[n])

(* C7: at every moment the text frames written are the texts of the delta  *)
(* lines received whole so far, one frame per line, in the order of the    *)
(* lines in the upstream bytes.  The texts are compared up to the decoding *)
(* of a character that a chunk boundary cut in two.                         *)
C7_FramesInLineOrder ==
  (Buffered /\ SSEStyle /\ pc \in {"streaming", "ended", "hung"})
    => SameTexts(Texts(frames), DeltaTexts(CompleteLines(toString(sent))))

C7_Witness ==
  /\ impl = "ai"
  /\ provider = "anthropic"
  /\ pc = "streaming"
  /\ buffer # <<>>
  /\ Texts(frames) = <<<<"world">>, <<"Hello">>>>

SentinelLine == <<"data: ", "[DONE]">>
IsDelta(line) == startsWithData(line) /\ JSONparse(slice6(line)).delta

RECURSIVE DeltasBeforeSentinel(_)
DeltasBeforeSentinel(lines) ==
  IF lines = <<>> \/ lines[1] = SentinelLine THEN 0
  ELSE (IF IsDelta(lines[1]) THEN 1 ELSE 0) + DeltasBeforeSentinel(Tail(lines))

(* C9: a `data: [DONE]` line ends the stream: the text frames written are  *)
(* no more than the delta lines received before the sentinel line.          *)
C9_SentinelEndsStream ==
  LET lines == CompleteLines(toString(sent))
  IN  (SSEStyle /\ \E n \in 1..Len(lines) : lines[n] = SentinelLine)
        => Len(TextFrames(frames)) <= DeltasBeforeSentinel(lines)

HelloWorldFoo == <<"Hello", " ", "world", " ", "foo">>

RECURSIVE WordFrames(_)
WordFrames(t) ==
  IF t = <<>> THEN <<>>
  ELSE (IF t[1] = " " THEN <<>> ELSE <<TextFrame(<<t[1], " ">>)>>)
         \o WordFrames(Tail(t))

(* C10: for gemini the full response text is written one word per frame,   *)
(* each word followed by a space, then Done: "Hello world foo" gives       *)
(* "Hello ", "world ", "foo ", Done.                                        *)
C10_WordPerFrame ==
  (impl \in {"ai", "index"} /\ provider = "gemini" /\ pc = "ended"
     /\ geminiMatches(toString(sent)) = <<HelloWorldFoo>> /\ Last(frames).kind = "done")
    => frames = WordFrames(HelloWorldFoo) \o <<DoneFrame>>

----------------------------------------------------------------------------
(* Properties of the selection, of /models and /chat, and of the request   *)
(* translation.                                                             *)

Handled == pc # "idle"
SelectingRouter == impl \in {"ai", "index"}
ChatOrStream == req.endpoint \in {"chat", "stream"} /\ req.message # NoMessage
NoProviderAnswer ==
  /\ outbound = <<>>
  /\ IF req.endpoint = "chat"
       THEN pc = "replied" /\ reply.kind = "noProvider"
       ELSE pc = "ended" /\ frames = <<ErrorFrame("No AI provider configured")>>
Issued(p, m) ==
  outbound # <<>> /\ outbound[1].provider = p /\ outbound[1].model = m

(* C11: when no provider has a credential, /models answers the empty list  *)
(* and /chat answers the no-provider error for every requested model that  *)
(* is absent or a string, without throwing and without a provider request. *)
C11_NoCredentialDegradation ==
  (Handled /\ credentials(impl, env) = {} /\ req.model.kind # "number") =>
    CASE req.endpoint = "models" -> reply.models = <<>>
      [] req.endpoint = "chat" /\ req.message # NoMessage -> NoProviderAnswer
      [] OTHER -> TRUE

Slashed == req.model.kind = "string" /\ Len(req.model.segs) = 2

(* C12: a requested "provider/model" is used verbatim exactly when the     *)
(* provider is in the registry and has a credential; otherwise the         *)
(* automatic selection decides.                                             *)
C12_PrefixedModelNeedsCredential ==
  (Handled /\ SelectingRouter /\ ChatOrStream /\ Slashed) =>
    LET p == req.model.segs[1]
        auto == selectModel(impl, req.message, env)
    IN  IF p \in Providers /\ p \in env THEN Issued(p, req.model.segs[2])
        ELSE IF auto = Null THEN NoProviderAnswer
        ELSE Issued(auto.provider, auto.model)

BareName ==
  req.model.kind = "string" /\ Len(req.model.segs) = 1 /\ req.model.segs[1] # "auto"
Lists(i, p, name) ==
  \E k \in 1..Len(PROVIDERS_models(i)[p]) : PROVIDERS_models(i)[p][k] = name
Owners(i, name, e) ==
  {k \in 1..Len(RegistryOrder) :
     Lists(i, RegistryOrder[k], name) /\ RegistryOrder[k] \in e}

(* C13: a requested bare model name selects the first registry provider    *)
(* that lists the name and has a credential, with that name as the model.  *)
C13_BareNameSearchesRegistry ==
  (Handled /\ SelectingRouter /\ ChatOrStream /\ BareName) =>
    LET owners == Owners(impl, req.model.segs[1], env)
    IN  owners # {} =>
          Issued(RegistryOrder[CHOOSE k \in owners : \A j \in owners : k <= j],
                 req.model.segs[1])

AutoRequest ==
  /\ SelectingRouter
  /\ ChatOrStream
  /\ req.model.kind = "absent" \/ req.model.segs = <<"auto">>

(* C14: the automatic selection returns the first provider of the order    *)
(* anthropic, openai, groq, gemini that has a credential, and none exactly *)
(* when no provider has one.                                                *)
C14_AutoSelectsFirstCredentialed ==
  (Handled /\ AutoRequest) =>
    IF env = {} THEN NoProviderAnswer
    ELSE /\ outbound # <<>>
         /\ outbound[1].provider \in env
         /\ \A k \in 1..Len(RegistryOrder) :
              RegistryOrder[k] = outbound[1].provider
                => \A j \in 1..(k - 1) : RegistryOrder[j] \notin env

C14_Witness ==
  /\ Handled
  /\ AutoRequest
  /\ env = {"groq", "gemini"}
  /\ Issued("groq", "llama-3.3-70b-versatile")

complexity(message) ==
  IF length(message) > 500 THEN "high"
  ELSE IF length(message) < 100 THEN "low"
  ELSE "medium"

(* C15: without a keyword the length decides the class (more than 500      *)
(* characters high, fewer than 100 low) and the model follows the class: a *)
(* high task is not given the model a low task is given.                    *)
C15_LengthClassifies ==
  (Handled /\ AutoRequest /\ "anthropic" \in env /\ ~isComplex(impl, req.message)
     /\ complexity(req.message) = "high") =>
    \A other \in ApiMessages :
      (other # NoMessage /\ ~isComplex(impl, other) /\ complexity(other) = "low")
        => ~Issued("anthropic", selectModel(impl, other, env).model)

Listed == {reply.models[k] : k \in 1..Len(reply.models)}

(* C16: /models lists exactly the pairs of a provider that has a           *)
(* credential and a model of its registry list, each once.                  *)
C16_ModelsAreCredentialed ==
  (Handled /\ req.endpoint = "models") =>
    /\ Listed = {[provider |-> p, model |-> PROVIDERS_models(impl)[p][k]] :
                   p \in env, k \in 1..2}
    /\ Cardinality(Listed) = Len(reply.models)

C16_Witness ==
  /\ req.endpoint = "models"
  /\ env = {"openai", "gemini"}
  /\ Len(reply.models) = 4
  /\ reply.models[1] = [provider |-> "openai", model |-> "gpt-4o"]

History ==
  IF SelectingRouter THEN Append(req.context, UserTurn(req.message)) ELSE req.context

(* C17: for openai and groq the request's message list is the system       *)
(* prompt with role system and then the whole history, unmodified.          *)
C17_OpenAiCarriesFullHistory ==
  (req.endpoint = "stream" /\ req.message # NoMessage /\ outbound # <<>>
     /\ outbound[1].provider \in {"openai", "groq"}) =>
    outbound[1].body.messages
      = <<[role |-> "system", content |-> SystemContent]>> \o History

Rank(c) == IF c.turn = 0 THEN MaxContext + 1 ELSE c.turn
InOrder(msgs) ==
  \A j, k \in 1..Len(msgs) :
    (j < k /\ msgs[j].content.turn >= 0 /\ msgs[k].content.turn >= 0)
      => Rank(msgs[j].content) < Rank(msgs[k].content)

(* C18: the handler leaves the client's context array as it was, and the   *)
(* messages of the provider body are in the order of the context.           *)
C18_ContextNotMutated ==
  (Handled /\ ChatOrStream) =>
    /\ context = req.context
    /\ outbound # <<>> => InOrder(outbound[1].body.messages)

C18_Witness ==
  /\ impl = "ai"
  /\ req.endpoint = "stream"
  /\ Len(req.context) = MaxContext
  /\ context = req.context
  /\ Issued("anthropic", "claude-sonnet-4-20250514")
  /\ Len(outbound[1].body.messages) = ContextWindow + 1

(* C19: when /stream throws after the headers were sent and before the     *)
(* provider has answered, the client gets one error frame and the          *)
(* connection is ended.                                                     *)
C19_ThrowBeforeStreamEnds ==
  (headersSent /\ upstreamStatus = "none" /\ pc \in {"ended", "hung"}) =>
    /\ pc = "ended"
    /\ ended = 1
    /\ Len(frames) = 1
    /\ frames[1].kind = "error"

----------------------------------------------------------------------------
(* Concurrent /stream connections of one router (ai.js or index.js), each  *)
(* with an SSE-style provider.  Every connection is paired with a          *)
(* reference handler that runs alone on the same chunks.                    *)

Connections == {1, 2}
ConcBytes == 5
ConcUnits == 1
ConcProviders == {"anthropic", "openai"}

(* A variant with one buffer for the module instead of one per request *)
bufferOf_shared(c) == 1

(* `let buffer = ''` is declared inside the handler: the buffer of         *)
(* connection c is its own.                                                 *)
bufferOf(c) == c

IdleConn ==
  [pc |-> "idle", provider |-> "null", sent |-> <<>>, frames |-> <<>>,
   alone |-> [buffer |-> <<>>, frames |-> <<>>]]

InitConc ==
  /\ impl \in {"ai", "index"}
  /\ pc = "idle"
  /\ provider = "null"
  /\ headersSent = FALSE
  /\ httpStatus = 0
  /\ upstreamStatus = "none"
  /\ sent = <<>>
  /\ buffer = <<>>
  /\ frames = <<>>
  /\ ended = 0
  /\ fetches = 0
  /\ ApiIdle
  /\ conns = [c \in Connections |-> IdleConn]
  /\ buffers = [c \in Connections |-> <<>>]
  /\ DbIdle
  /\ WsIdle

ConcChunks(i, p, s) ==
  ChunksFrom(CurrentUnit(s, NL), ConcBytes - Len(s),
             ConcUnits - UnitsBegun(s, NL), UnitsFor(i, p))

(* A request arrives and its fetch resolves: reader and buffer are set up *)
ConcOpen ==
  /\ \E c \in Connections, p \in ConcProviders :
       /\ conns[c].pc = "idle"
       /\ conns' = [conns EXCEPT ![c].pc = "streaming", ![c].provider = p]
       /\ buffers' = [buffers EXCEPT ![bufferOf(c)] = <<>>]
  /\ UNCHANGED <<streamVars, apiVars, dbVars, wsVars>>

(* The 'data' listener of one connection runs on its next chunk *)
ConcData ==
  /\ \E c \in Connections :
       /\ conns[c].pc = "streaming"
       /\ \E chunk \in ConcChunks(impl, conns[c].provider, conns[c].sent) :
            LET r == onData(impl, conns[c].provider, buffers[bufferOf(c)], chunk)
                a == onData(impl, conns[c].provider, conns[c].alone.buffer, chunk)
            IN  /\ conns' = [conns EXCEPT
                               ![c].sent = @ \o chunk,
                               ![c].frames = @ \o r.out,
                               ![c].alone = [buffer |-> a.buffer,
                                             frames |-> @.frames \o a.out]]
                /\ buffers' = [buffers EXCEPT ![bufferOf(c)] = r.buffer]
  /\ UNCHANGED <<streamVars, apiVars, dbVars, wsVars>>

(* The 'end' listener of one connection *)
ConcEnd ==
  /\ \E c \in Connections :
       /\ conns[c].pc = "streaming"
       /\ conns' = [conns EXCEPT
                      ![c].pc = "ended",
                      ![c].frames = @ \o onEnd(impl),
                      ![c].alone = [buffer |-> @.buffer,
                                    frames |-> @.frames \o onEnd(impl)]]
       /\ UNCHANGED buffers
  /\ UNCHANGED <<streamVars, apiVars, dbVars, wsVars>>

NextConc ==
  \/ ConcOpen
  \/ ConcData
  \/ ConcEnd

SpecConc == InitConc /\ [][NextConc]_vars

----------------------------------------------------------------------------
(* Termination of /stream when the provider goes silent.                    *)

(* The handler arms no timer and passes no abort signal to fetch: after    *)
(* its synchronous part (Request) every further step is the provider's     *)
(* (the fetch settling, a chunk, the close or the failure of the body).    *)
(* The run of the synchronous part is the only step the server itself      *)
(* guarantees; a provider that stays silent takes none of the others.      *)
SpecSilent == Init /\ [][Next]_vars /\ WF_vars(Request)

Pending == pc \in {"fetching", "streaming", "json"}

(* C21: every provider call of /stream is bounded: a connection waiting    *)
(* for its provider (for the response, or for the next chunk or the close  *)
(* of the body) is eventually ended by the handler, also when the provider *)
(* takes no further step.                                                   *)
C21_ProviderCallBounded == Pending ~> (pc = "ended")

(* The text fragments of a gemini body read as a whole *)
GeminiFragments(s) == writeMatches(geminiMatches(toString(s)))

(* C24: in the gemini branch of ai.js the text frames written are the text *)
(* fragments of the upstream body, each once and in order, however the     *)
(* body was cut into chunks.                                                *)
C24_GeminiFragmentsOnce ==
  (impl = "ai" /\ provider = "gemini" /\ upstreamStatus = "ok"
     /\ pc = "ended" /\ Last(frames).kind = "done")
    => TextFrames(frames) = GeminiFragments(sent)

(* C25: when the body of an SSE-style provider closes while the line       *)
(* buffer holds a whole valid data line without its newline, the text of   *)
(* that line is the last text frame written before the done frame.          *)
C25_LastLineFlushed ==
  (Buffered /\ SSEStyle /\ upstreamStatus = "ok" /\ pc = "ended"
     /\ Last(frames).kind = "done" /\ DeltaText(buffer) # <<>>)
    => /\ Len(frames) >= 2
       /\ frames[Len(frames) - 1] = TextFrame(DeltaText(buffer)[1])

(* C26: in ai.js and index.js a /stream or /chat request without a message *)
(* is answered 400 'Message required', and nothing else has happened: no   *)
(* SSE header, no frame, no model selected, no provider request.            *)
C26_MessageRequired ==
  (SelectingRouter /\ req.endpoint \in {"chat", "stream"}
     /\ req.message = NoMessage)
    => /\ reply.status = 400
       /\ reply.kind = "messageRequired"
       /\ httpStatus = 400
       /\ ~headersSent
       /\ frames = <<>>
       /\ provider = "null"
       /\ outbound = <<>>
       /\ fetches = 0
       /\ ended = 0

C26_Witness ==
  /\ impl = "ai"
  /\ req.endpoint = "stream"
  /\ req.message = NoMessage
  /\ req.model = Str(<<"openai", "gpt-4o">>)
  /\ "openai" \in env
  /\ reply.status = 400

----------------------------------------------------------------------------
(* The database (database/index.js over schema.sql) and the routes that    *)
(* use it.  A table is the set of its rows; only the columns the code      *)
(* reads, writes or constrains are kept (no size, no timestamps besides    *)
(* completed_at).  The rows of `users` are fixed.                            *)

MaxUuids == 3

Users == {"alice", "bob"}
Names == {"A", "B"}
Paths == {"/a", "/b"}
Contents == {"x", "y"}
undefined == "undefined"
NULL == "NULL"

(* uuid(): the n-th identifier handed out; identifiers are never reused *)
uuid(n) == ToString(n + 1)
Uuids == {uuid(n) : n \in 0..(MaxUuids - 1)}

(* A bound parameter: better-sqlite3 stores undefined as NULL *)
bind(v) == IF v = undefined THEN NULL ELSE v

(* a || b on strings that are not empty *)
or(a, b) == IF a \in {undefined, NULL} THEN b ELSE a

ids(T) == {r.id : r \in T}

(* The result of a call: whether it threw, the tables it leaves, the id    *)
(* it returns                                                                *)
Result(threw, T, id) == [threw |-> threw, table |-> T, id |-> id]

(* ---- projects ---- *)
getProject(P, id) == {r \in P : r.id = id}

createProject(P, id, userId, name) ==
  IF bind(name) = NULL \/ userId \notin Users          \* NOT NULL, REFERENCES users
    THEN Result(TRUE, P, undefined)
    ELSE Result(FALSE, P \cup {[id |-> id, user_id |-> userId, name |-> name,
                       status |-> "active"]}, id)

allowed == {"name", "description", "status", "framework", "language", "settings"}

(* A variant whose UPDATE has no WHERE clause *)
updateProject_everyRow(P, id, updates) ==
  LET fields == (DOMAIN updates) \cap allowed
  IN  {[f \in DOMAIN r |-> IF f \in fields THEN updates[f] ELSE r[f]] : r \in P}

(* updates: a record of strings *)
updateProject(P, id, updates) ==
  LET fields == (DOMAIN updates) \cap allowed
  IN  IF fields = {} THEN P
      ELSE {IF r.id = id
              THEN [f \in DOMAIN r |-> IF f \in fields THEN updates[f] ELSE r[f]]
              ELSE r : r \in P}

(* ---- project_files ---- *)
getFile(F, id) == {r \in F : r.id = id}
getFileByPath(F, projectId, path) ==
  {r \in F : r.project_id = projectId /\ r.path = bind(path)}
getProjectFiles(F, projectId) == {r \in F : r.project_id = projectId}

(* A variant that leaves the row of an existing path as it is *)
saveFile_keep(F, P, id, projectId, a) ==
  LET existing == getFileByPath(F, projectId, a.path)
  IN  IF existing # {} THEN Result(FALSE, F, (CHOOSE r \in existing : TRUE).id)
      ELSE Result(FALSE, F \cup {[id |-> id, project_id |-> projectId, path |-> a.path,
                         name |-> a.name, content |-> bind(a.content),
                         mime_type |-> bind(a.mimeType),
                         is_directory |-> IF a.isDirectory THEN 1 ELSE 0,
                         parent_id |-> bind(a.parentId)]}, id)

(* id: the identifier uuid() returns if it is called *)
saveFile(F, P, id, projectId, a) ==
  LET existing == getFileByPath(F, projectId, a.path)
  IN  IF existing # {}
        THEN LET e == CHOOSE r \in existing : TRUE
             IN  Result(FALSE, (F \ {e}) \cup
                        {[e EXCEPT !.content = bind(a.content),
                                   !.mime_type = bind(a.mimeType)]}, e.id)
      ELSE IF \/ projectId \notin ids(P)                 \* REFERENCES projects
              \/ bind(a.path) = NULL \/ bind(a.name) = NULL      \* NOT NULL
              \/ bind(a.parentId) \notin ids(F) \cup {NULL}  \* REFERENCES project_files
        THEN Result(TRUE, F, undefined)
      ELSE Result(FALSE, F \cup {[id |-> id, project_id |-> projectId, path |-> a.path,
                         name |-> a.name, content |-> bind(a.content),
                         mime_type |-> bind(a.mimeType),
                         is_directory |-> IF a.isDirectory THEN 1 ELSE 0,
                         parent_id |-> bind(a.parentId)]}, id)

(* parent_id REFERENCES project_files(id) with no ON DELETE action: the    *)
(* statement fails when a row that stays still names a deleted row          *)
Orphans(F, gone) == {r \in F \ gone : r.parent_id \in ids(gone)}

deleteFile(F, id) ==
  LET gone == {r \in F : r.id = id \/ r.parent_id = id}
  IN  IF Orphans(F, gone) # {} THEN Result(TRUE, F, undefined)
      ELSE Result(FALSE, F \ gone, id)

(* ON DELETE CASCADE from projects to project_files and deployments *)
deleteProject(P, F, D, id) ==
  LET gone == {r \in F : r.project_id = id /\ id \in ids(P)}
  IN  IF Orphans(F, gone) # {}
        THEN [threw |-> TRUE, projects |-> P, project_files |-> F, deployments |-> D]
        ELSE [threw |-> FALSE,
              projects |-> {r \in P : r.id # id},
              project_files |-> F \ gone,
              deployments |-> {r \in D : ~(r.project_id = id /\ id \in ids(P))}]

(* ---- deployments ---- *)
getDeployment(D, id) == {r \in D : r.id = id}

createDeployment(D, P, id, projectId, userId, platform) ==
  IF projectId \notin ids(P) \/ userId \notin Users \/ bind(platform) = NULL
    THEN Result(TRUE, D, undefined)
    ELSE Result(FALSE, D \cup {[id |-> id, project_id |-> projectId, user_id |-> userId,
                       platform |-> platform, status |-> "pending", url |-> NULL,
                       deploy_id |-> NULL, logs |-> NULL, completed_at |-> NULL]},
              id)

truthy(v) == v \notin {undefined, NULL, ""}

(* A variant that never stamps completed_at *)
updateDeployment_unstamped(D, id, u) ==
  {IF r.id = id
     THEN [r EXCEPT !.status = IF truthy(u.status) THEN u.status ELSE @,
                    !.url = IF truthy(u.url) THEN u.url ELSE @]
     ELSE r : r \in D}

updateDeployment(D, id, u) ==
  {IF r.id = id
     THEN [r EXCEPT !.status = IF truthy(u.status) THEN u.status ELSE @,
                    !.url = IF truthy(u.url) THEN u.url ELSE @,
                    !.deploy_id = IF truthy(u.deployId) THEN u.deployId ELSE @,
                    !.logs = IF truthy(u.logs) THEN u.logs ELSE @,
                    !.completed_at = IF u.status \in {"success", "failed"}
                                       THEN "CURRENT_TIMESTAMP" ELSE @]
     ELSE r : r \in D}

----------------------------------------------------------------------------
(* The calls and requests.  `called` keeps the last one with its result.   *)

Call(op, project, id) == [NoCall EXCEPT !.op = op, !.project = project, !.id = id]
Refused(op, status, what) == [NoCall EXCEPT !.op = op, !.status = status, !.error = what]

InitDb ==
  /\ impl = "ai"
  /\ pc = "idle"
  /\ provider = "null"
  /\ headersSent = FALSE
  /\ httpStatus = 0
  /\ upstreamStatus = "none"
  /\ sent = <<>>
  /\ buffer = <<>>
  /\ frames = <<>>
  /\ ended = 0
  /\ fetches = 0
  /\ ApiIdle
  /\ ConcIdle
  /\ DbIdle
  /\ WsIdle

(* db.createProject(userId, {name}) *)
CreateProject ==
  /\ uuids < MaxUuids
  /\ \E userId \in Users, name \in Names \cup {undefined} :
       LET r == createProject(projects, uuid(uuids), userId, name)
       IN  /\ projects' = r.table
           /\ called' = [Call("createProject", "", uuid(uuids)) EXCEPT
                           !.value = bind(name), !.threw = r.threw,
                           !.rows = getProject(r.table, uuid(uuids))]
  /\ uuids' = uuids + 1
  /\ UNCHANGED <<project_files, deployments, deploying>>
  /\ UNCHANGED <<streamVars, apiVars, concVars, wsVars>>

(* db.updateProject(id, updates) *)
UpdateProject ==
  /\ \E id \in Uuids,
        updates \in {[name |-> n] : n \in Names} \cup {[id |-> "0"]} :
       LET P == updateProject(projects, id, updates)
       IN  /\ projects' = P
           /\ called' = [Call("updateProject", "", id) EXCEPT
                           !.value = IF "name" \in DOMAIN updates
                                       THEN updates.name ELSE undefined,
                           !.rows = getProject(P, id)]
  /\ UNCHANGED <<project_files, deployments, uuids, deploying>>
  /\ UNCHANGED <<streamVars, apiVars, concVars, wsVars>>

(* db.deleteProject(id) *)
DeleteProject ==
  /\ \E id \in Uuids :
       LET r == deleteProject(projects, project_files, deployments, id)
       IN  /\ projects' = r.projects
           /\ project_files' = r.project_files
           /\ deployments' = r.deployments
           /\ called' = [Call("deleteProject", "", id) EXCEPT !.threw = r.threw]
  /\ UNCHANGED <<uuids, deploying>>
  /\ UNCHANGED <<streamVars, apiVars, concVars, wsVars>>

(* The arguments saveFile is called with: a file, with or without name    *)
(* (files.js 40-47, run-all.js 54-60), or a folder (files.js 101-108).     *)
(* No caller passes parentId.                                                *)
FileArgs ==
  {[path |-> path, name |-> name, content |-> content, mimeType |-> "text/plain",
    isDirectory |-> FALSE, parentId |-> undefined] :
      path \in Paths, name \in {undefined, "a.js"}, content \in Contents}
    \cup {[path |-> "/a", name |-> "a.js", content |-> NULL,
           mimeType |-> "inode/directory", isDirectory |-> TRUE,
           parentId |-> undefined]}

(* db.saveFile(projectId, {path, name, content, ...}) *)
SaveFile ==
  /\ \E projectId \in Uuids, a \in FileArgs :
       LET path == a.path
           content == a.content
           inserts == getFileByPath(project_files, projectId, path) = {}
           r == saveFile(project_files, projects, uuid(uuids), projectId, a)
       IN  /\ inserts => uuids < MaxUuids
           /\ project_files' = r.table
           /\ uuids' = IF inserts THEN uuids + 1 ELSE uuids
           /\ called' = [Call("saveFile", projectId, r.id) EXCEPT
                           !.path = path, !.value = content, !.threw = r.threw,
                           !.rows = IF r.threw THEN {} ELSE getFile(r.table, r.id)]
  /\ UNCHANGED <<projects, deployments, deploying>>
  /\ UNCHANGED <<streamVars, apiVars, concVars, wsVars>>

(* The project of the URL, when it is the caller's *)
Owned(userId, projectId) ==
  {r \in getProject(projects, projectId) : r.user_id = userId}

(* DELETE /files/:projectId/:fileId *)
FilesDelete ==
  /\ \E userId \in Users, projectId \in Uuids, fileId \in Uuids :
       LET c == Call("DELETE /files", projectId, fileId)
           r == deleteFile(project_files, fileId)
       IN  IF Owned(userId, projectId) = {}
             THEN /\ called' = Refused(c.op, 404, "Project not found")
                  /\ UNCHANGED project_files
             ELSE /\ project_files' = r.table
                  /\ called' = [c EXCEPT !.threw = r.threw,
                                         !.status = IF r.threw THEN 500 ELSE 200]
  /\ UNCHANGED <<projects, deployments, uuids, deploying>>
  /\ UNCHANGED <<streamVars, apiVars, concVars, wsVars>>

(* PUT /files/:projectId/:fileId {path, name} *)
FilesPut ==
  /\ \E userId \in Users, projectId \in Uuids, fileId \in Uuids,
        path \in Paths \cup {undefined}, name \in {undefined, "b.js"} :
       LET c == [Call("PUT /files", projectId, fileId) EXCEPT
                   !.path = path, !.value = name]
           found == getFile(project_files, fileId)
           file == CHOOSE r \in found : TRUE
           a == [path |-> or(path, file.path), name |-> or(name, file.name),
                 content |-> file.content, mimeType |-> undefined,
                 isDirectory |-> FALSE,      \* undefined: the row has is_directory
                 parentId |-> undefined]
           inserts == getFileByPath(project_files, projectId, a.path) = {}
           r == saveFile(project_files, projects, uuid(uuids), projectId, a)
       IN  IF Owned(userId, projectId) = {}
             THEN /\ called' = Refused(c.op, 404, "Project not found")
                  /\ UNCHANGED <<project_files, uuids>>
           ELSE IF found = {}
             THEN /\ called' = Refused(c.op, 404, "File not found")
                  /\ UNCHANGED <<project_files, uuids>>
           ELSE /\ inserts => uuids < MaxUuids
                /\ project_files' = r.table
                /\ uuids' = IF inserts THEN uuids + 1 ELSE uuids
                /\ called' = [c EXCEPT !.threw = r.threw,
                                       !.status = IF r.threw THEN 500 ELSE 200,
                                       !.rows = IF r.threw THEN {}
                                                ELSE getFile(r.table, fileId)]
  /\ UNCHANGED <<projects, deployments, deploying>>
  /\ UNCHANGED <<streamVars, apiVars, concVars, wsVars>>

(* ---- POST /deploy/:projectId ---- *)
Supported == {"vercel", "netlify", "railway"}

(* What the platform's API does with the upload: a result with or without  *)
(* a url, or an error (a rejected fetch, an error body, a TypeError on the *)
(* result's shape)                                                           *)
Outcomes ==
  {[ok |-> TRUE, url |-> "https://x", deployId |-> "d", message |-> undefined],
   [ok |-> TRUE, url |-> undefined, deployId |-> "d", message |-> undefined],
   [ok |-> FALSE, url |-> undefined, deployId |-> undefined, message |-> "boom"]}

(* The handler of one deployment: waiting for its platform, or answered *)
Handler(id, state, status, success) ==
  [deployment |-> id, state |-> state, status |-> status, success |-> success]

succeeded(D, id, result) ==
  updateDeployment(D, id, [status |-> "success", url |-> result.url,
                           deployId |-> result.deployId, logs |-> undefined])
failed(D, id, message) ==
  updateDeployment(D, id, [status |-> "failed", url |-> undefined,
                           deployId |-> undefined, logs |-> message])

(* The handler up to its first await: the checks, the pending record, and  *)
(* for a platform it does not know the throw into the inner catch           *)
DeployPost ==
  /\ \E userId \in Users, projectId \in Uuids, platform \in {"vercel", "heroku"},
        token \in {undefined, "token"} :
       LET c == [Call("POST /deploy", projectId, "") EXCEPT !.value = platform]
           files == {f \in getProjectFiles(project_files, projectId) :
                       f.is_directory = 0}
           id == uuid(uuids)
           r == createDeployment(deployments, projects, id, projectId, userId,
                                 platform)
       IN  IF Owned(userId, projectId) = {}
             THEN /\ called' = Refused(c.op, 404, "Project not found")
                  /\ UNCHANGED <<deployments, uuids, deploying>>
           ELSE IF ~truthy(token)
             THEN /\ called' = Refused(c.op, 400, "No token configured")
                  /\ UNCHANGED <<deployments, uuids, deploying>>
           ELSE IF files = {}
             THEN /\ called' = Refused(c.op, 400, "Project has no files to deploy")
                  /\ UNCHANGED <<deployments, uuids, deploying>>
           ELSE /\ uuids < MaxUuids
                /\ uuids' = uuids + 1
                /\ IF platform \in Supported
                     THEN /\ deployments' = r.table
                          /\ deploying' = deploying \cup {Handler(id, "awaiting", 0, FALSE)}
                          /\ called' = [c EXCEPT !.id = id]
                     ELSE /\ deployments' = failed(r.table, id, "Unsupported platform")
                          /\ deploying' = deploying \cup {Handler(id, "answered", 500, FALSE)}
                          /\ called' = [c EXCEPT !.id = id, !.status = 500,
                                                 !.error = "Unsupported platform"]
  /\ UNCHANGED <<projects, project_files>>
  /\ UNCHANGED <<streamVars, apiVars, concVars, wsVars>>

(* The platform call settles: the rest of the handler *)
DeploySettle ==
  /\ \E h \in deploying, result \in Outcomes :
       /\ h.state = "awaiting"
       /\ deployments' = IF result.ok
                           THEN succeeded(deployments, h.deployment, result)
                           ELSE failed(deployments, h.deployment, result.message)
       /\ deploying' = (deploying \ {h}) \cup
                         {IF result.ok THEN Handler(h.deployment, "answered", 200, TRUE)
                                       ELSE Handler(h.deployment, "answered", 500, FALSE)}
       /\ called' = [Call("POST /deploy", "", h.deployment) EXCEPT
                       !.status = IF result.ok THEN 200 ELSE 500,
                       !.error = IF result.ok THEN "" ELSE result.message]
  /\ UNCHANGED <<projects, project_files, uuids>>
  /\ UNCHANGED <<streamVars, apiVars, concVars, wsVars>>

(* The database as the test suite drives it *)
NextDb ==
  \/ CreateProject
  \/ UpdateProject
  \/ DeleteProject
  \/ SaveFile

SpecDb == InitDb /\ [][NextDb]_vars

(* The file routes over projects and files made through the database *)
NextFiles ==
  \/ CreateProject
  \/ SaveFile
  \/ FilesDelete
  \/ FilesPut

SpecFiles == InitDb /\ [][NextFiles]_vars

(* The deploy route, next to the deletion of projects *)
NextDeploy ==
  \/ CreateProject
  \/ SaveFile
  \/ DeleteProject
  \/ DeployPost
  \/ DeploySettle

SpecDeploy == InitDb /\ [][NextDeploy]_vars

----------------------------------------------------------------------------
(* Properties of the database and of the routes over it.                    *)

Terminated == {"success", "failed"}

(* C22: db.getProject(id) reflects the last call on that project: it is    *)
(* readable (with the name given) after createProject returned it, it has  *)
(* the new name after updateProject(id, {name}), it is absent after        *)
(* deleteProject(id); and a call on one id changes no other project.        *)
C22_ProjectReflectsLastCall ==
  [][LET c == called'
     IN  /\ (c.op = "createProject" /\ ~c.threw) =>
               /\ getProject(projects', c.id) # {}
               /\ c.rows = getProject(projects', c.id)
               /\ \A r \in getProject(projects', c.id) : r.name = c.value
         /\ (c.op = "updateProject" /\ c.value # undefined) =>
               \A r \in getProject(projects', c.id) : r.name = c.value
         /\ (c.op = "deleteProject" /\ ~c.threw) => getProject(projects', c.id) = {}
         /\ c.op \in {"createProject", "updateProject", "deleteProject"} =>
               \A j \in Uuids \ {c.id} :
                 getProject(projects', j) = getProject(projects, j)]_vars

C22_Witness ==
  /\ called.op = "updateProject"
  /\ called.value = "B"
  /\ \E p \in projects, q \in projects :
       /\ p.id = called.id
       /\ p.name = "B"
       /\ q.id # p.id
       /\ q.name = "A"

(* C23: when db.saveFile(project, {path, content}) returns id, getFile(id) *)
(* has the content saved, for a new path and for an existing one: for an   *)
(* existing (project, path) the id returned is the existing row's, and the *)
(* number of rows at (project, path) is one.                                *)
C23_SaveFileRoundTrip ==
  [][LET c == called'
         before == getFileByPath(project_files, c.project, c.path)
     IN  (c.op = "saveFile" /\ ~c.threw) =>
           /\ getFile(project_files', c.id) # {}
           /\ \A r \in getFile(project_files', c.id) : r.content = c.value
           /\ \A r \in before : r.id = c.id
           /\ Cardinality(getFileByPath(project_files', c.project, c.path)) = 1]_vars

(* A folder whose row was saved again as a file: only the update of an     *)
(* existing path leaves such a row                                           *)
C23_Witness ==
  /\ called.op = "saveFile"
  /\ ~called.threw
  /\ called.value = "x"
  /\ \E r \in project_files :
       /\ r.id = called.id
       /\ r.is_directory = 1
       /\ r.content = "x"

(* C27: the record of a deployment is 'pending' while its handler waits,   *)
(* and when the request has been answered it is 'success' or 'failed' with *)
(* completed_at set, the response reporting success exactly for 'success'; *)
(* a record that is 'success' or 'failed' keeps its status and its         *)
(* completed_at for as long as it exists.                                   *)
C27_DeploymentLifecycle ==
  [][/\ \A h \in deploying' : \A r \in getDeployment(deployments', h.deployment) :
          /\ h.state = "awaiting" => (r.status = "pending" /\ r.completed_at = NULL)
          /\ h.state = "answered" =>
               /\ r.status \in Terminated
               /\ r.completed_at # NULL
               /\ h.success <=> r.status = "success"
               /\ h.success <=> h.status = 200
     /\ \A r \in deployments : r.status \in Terminated =>
          \A q \in getDeployment(deployments', r.id) :
            q.status = r.status /\ q.completed_at = r.completed_at]_vars

C27_Witness ==
  /\ called.op = "POST /deploy"
  /\ called.status = 200
  /\ \E h \in deploying, r \in deployments :
       /\ h.deployment = r.id
       /\ h.state = "answered"
       /\ h.success
       /\ r.status = "success"
       /\ r.url = NULL
       /\ r.completed_at # NULL

(* C28: a file route that succeeds acts on a file of the project named in  *)
(* the URL only: the file it was given belongs to that project, and no row *)
(* of another project is removed, added or changed.                         *)
C28_FileRoutesStayInProject ==
  [][LET c == called'
     IN  (c.op \in {"DELETE /files", "PUT /files"} /\ c.status = 200) =>
           /\ \A r \in getFile(project_files, c.id) : r.project_id = c.project
           /\ \A r \in project_files \cup project_files' :
                r.project_id # c.project =>
                  (r \in project_files /\ r \in project_files')]_vars

(* C29: after a successful PUT /files/:projectId/:fileId that gives a new  *)
(* path to a file of the project, the file has that path (and the name     *)
(* given), the response carries the file as it now is, and the project has *)
(* as many files as before.                                                  *)
C29_PutMovesFile ==
  [][LET c == called'
         old == getFile(project_files, c.id)
     IN  (/\ c.op = "PUT /files"
          /\ c.status = 200
          /\ c.path # undefined
          /\ \A r \in old : r.project_id = c.project /\ r.path # c.path) =>
           /\ getFile(project_files', c.id) # {}
           /\ c.rows = getFile(project_files', c.id)
           /\ \A r \in getFile(project_files', c.id) :
                /\ r.path = c.path
                /\ \A o \in old : r.name = or(c.value, o.name)
           /\ Cardinality(getProjectFiles(project_files', c.project))
                = Cardinality(getProjectFiles(project_files, c.project))]_vars

----------------------------------------------------------------------------
(* The WebSocket client registry: index.js (94-120) and its copy in        *)
(* unnamed/part_001 (68-127).                                               *)

MaxSockets == 3
MaxClock == 1
(* ws.readyState of an open socket (3: closed) *)
OPEN == 1
Channels == {"p1", "p2"}

(* The key a connection is registered under: the clock's reading in        *)
(* index.js; in part_001 nine digits of Math.random(), taken here as       *)
(* different for every connection.                                          *)
clientId(i, t, n) ==
  IF i = "index" THEN ToString(t) ELSE "r" \o ToString(n)

(* clients.set(id, ws) *)
set(m, id, ws) == [k \in (DOMAIN m) \cup {id} |-> IF k = id THEN ws ELSE m[k]]
(* clients.delete(id) *)
delete(m, id) == [k \in (DOMAIN m) \ {id} |-> m[k]]
(* the sockets clients.forEach visits *)
values(m) == {m[k] : k \in DOMAIN m}

InitWs ==
  /\ impl \in {"index", "part1"}
  /\ pc = "idle"
  /\ provider = "null"
  /\ headersSent = FALSE
  /\ httpStatus = 0
  /\ upstreamStatus = "none"
  /\ sent = <<>>
  /\ buffer = <<>>
  /\ frames = <<>>
  /\ ended = 0
  /\ fetches = 0
  /\ ApiIdle
  /\ ConcIdle
  /\ DbIdle
  /\ WsIdle

(* Time passes *)
Tick ==
  /\ now < MaxClock
  /\ now' = now + 1
  /\ UNCHANGED <<clients, sockets, received>>
  /\ UNCHANGED <<streamVars, apiVars, concVars, dbVars>>

(* wss.on('connection'): the socket is registered under its id *)
Connection ==
  /\ Len(sockets) < MaxSockets
  /\ LET ws == Len(sockets) + 1
         id == clientId(impl, now, ws)
     IN  /\ clients' = set(clients, id, ws)
         /\ sockets' = Append(sockets, [readyState |-> OPEN, id |-> id,
                                        subscriptions |-> {}])
  /\ UNCHANGED <<received, now>>
  /\ UNCHANGED <<streamVars, apiVars, concVars, dbVars>>

(* ws.on('message'): subscribe sets ws.projectId (index.js) or adds the    *)
(* channel to ws.subscriptions (part_001), unsubscribe removes it           *)
onMessage(i, subs, type, channel) ==
  IF type = "subscribe"
    THEN (IF i = "index" THEN {channel} ELSE subs \cup {channel})
    ELSE (IF i = "index" THEN subs ELSE subs \ {channel})

Message ==
  /\ \E ws \in DOMAIN sockets, type \in {"subscribe", "unsubscribe"},
        channel \in Channels :
       /\ sockets[ws].readyState = OPEN
       /\ sockets' = [sockets EXCEPT ![ws].subscriptions =
                        onMessage(impl, @, type, channel)]
  /\ UNCHANGED <<clients, received, now>>
  /\ UNCHANGED <<streamVars, apiVars, concVars, dbVars>>

(* The socket closes: ws.on('close') deletes the id of its closure *)
Close ==
  /\ \E ws \in DOMAIN sockets :
       /\ sockets[ws].readyState = OPEN
       /\ sockets' = [sockets EXCEPT ![ws].readyState = 3]
       /\ clients' = delete(clients, sockets[ws].id)
  /\ UNCHANGED <<received, now>>
  /\ UNCHANGED <<streamVars, apiVars, concVars, dbVars>>

(* broadcast(projectId, data): ws.send on every registered socket that is  *)
(* open and subscribed                                                       *)
broadcast(m, channel) ==
  {ws \in values(m) : sockets[ws].readyState = OPEN
                        /\ channel \in sockets[ws].subscriptions}

Broadcast ==
  /\ \E channel \in Channels :
       received' = [channel |-> channel, sockets |-> broadcast(clients, channel)]
  /\ UNCHANGED <<clients, sockets, now>>
  /\ UNCHANGED <<streamVars, apiVars, concVars, dbVars>>

NextWs ==
  \/ Tick
  \/ Connection
  \/ Message
  \/ Close
  \/ Broadcast

SpecWs == InitWs /\ [][NextWs]_vars

Open(ws) == sockets[ws].readyState = OPEN

(* C30: after any sequence of connects and closes the registry holds       *)
(* exactly the open connections, also when two were accepted at the same   *)
(* reading of the clock, and a broadcast is sent to every open connection  *)
(* subscribed to its channel.                                               *)
C30_RegistryIsOpenConnections ==
  [][/\ values(clients') = {ws \in DOMAIN sockets' : sockets'[ws].readyState = OPEN}
     /\ received' # received =>
          received'.sockets =
            {ws \in DOMAIN sockets :
               Open(ws) /\ received'.channel \in sockets[ws].subscriptions}]_vars

====
